---- MODULE Spec2Model ----
(***************************************************************************)
(* Pub/Sub message sending handler (PubSubMessageSend) of the Tentacles    *)
(* API handlers, together with the managed send engine that drives it.     *)
(*                                                                         *)
(* The per-batch send function getSendSingleMessageFn and getSpeedOptions  *)
(* are translated from task_config_dao.js, lines 161-278.  The managed     *)
(* send engine behind this.getManagedSendFn(config) (partitioning, lanes,  *)
(* pacing, merging of the per-batch results) and getProperValue live       *)
(* outside the given sources; they are modelled from the specification,    *)
(* sections 4.3, 4.4, 5 and 7.  So are the Coordinator's decision on the   *)
(* next group of a task (ignoreError) and the knot barrier, section 4.2.   *)
(*                                                                         *)
(* Time is counted in milliseconds and advances in steps of one second,    *)
(* so a one-second window is the span between two Tick steps.              *)
(***************************************************************************)
EXTENDS Integers, Sequences, FiniteSets, TLC

(* ------------------------------ bounds -------------------------------- *)
\* longest record input of an invocation
MaxRecords == 2
\* largest config.numberOfThreads
MaxThreads == 2
\* largest config.qps
MaxQps == 2
\* largest errorOptions.retryTimes of a task configuration
MaxCfgRetryTimes == 4
\* longest batch handed directly to the per-batch send function
MaxLines == 2
\* largest config.recordsPerRequest
MaxPerRequest == 2
\* largest number of embedded children of a knot task
MaxChildren == 3
\* most records of a task the Coordinator runs to its next group
MaxTaskRecords == 1

(* ------------------------- program constants -------------------------- *)
RECORDS_PER_REQUEST == 1
QUERIES_PER_SECOND == 1
NUMBER_OF_THREADS == 1
RETRY_TIMES == 3
\* the factor of wait(retryTimes * 1000)
MsPerSecond == 1000

(* ------------------------------ records ------------------------------- *)
\* "a" and "b" are lines holding a JSON object, "x" is a line that is not JSON
JsonRecords == {"a", "b"}
Records == JsonRecords \cup {"x"}

\* outcome of one pubsub.publish call: resolved, or rejected with an error
\* that a classification would call retryable or non-retryable ("fatal")
Failures == {"retryable", "fatal"}
Outcomes == {"ok"} \cup Failures

\* ids of the tasks a next group may name
TaskIds == {"A", "B"}

\* a JS object without any property
EmptyObject == [f \in {} |-> 0]

WRONG_NUMBER == "Wrong number of Pub/Sub messages."
SYNTAX_ERROR == "SyntaxError"

SeqsUpTo(S, n) == UNION {[1..k -> S] : k \in 0..n}

VARIABLES
  config,       \* numberOfThreads, qps, recordsPerRequest (0: absent),
                \* errorOptions retryTimes and ignoreError, next
  records,      \* the record input of the invocation
  batches,      \* the batches ("lines") handed to the per-batch send function
  plan,         \* per batch: the outcomes of its first publish calls
  pc,           \* per batch: position of its call of the send function
  batchResult,  \* per batch: the batchResult object of the call
  retryTimes,   \* per batch: the local retryTimes
  errors,       \* per batch: the local errors
  waitFor,      \* per batch: the delay of the pending wait(), in ms
  waited,       \* per batch: the time the pending wait() has lasted, in ms
  fault,        \* per batch: message of the error the call threw, "" if none
  attempts,     \* per batch: number of pubsub.publish calls made (history)
  outcomes,     \* per batch: outcome of each finished publish call (history)
  waits,        \* per batch: duration of each finished wait() (history)
  issuedNow,    \* publish calls made in the current one-second window
  pacedNow,     \* batches the engine issued in the current one-second window
  aborted,      \* a call of the send function was rejected
  completed,    \* batches in the order in which their calls returned
  aggregate,    \* the invocation-level BatchResult, EmptyObject until merged
  chain,        \* the Coordinator's decision on the task's next group
  invoked,      \* the next tasks the Coordinator invoked, in order
  children      \* knot task: status and ignoreError of each embedded child

\* the state of the Coordinator and of the task graph
coordVars == <<chain, invoked, children>>

vars == <<config, records, batches, plan, pc, batchResult, retryTimes, errors,
          waitFor, waited, fault, attempts, outcomes, waits, issuedNow,
          pacedNow, aborted, completed, aggregate, chain, invoked, children>>

Batches == DOMAIN batches

(* --------------------------- pure functions --------------------------- *)
\* getProperValue(value, defaultValue, false): the configured value when the
\* configuration supplies one, the default otherwise
getProperValue(value, defaultValue) ==
  IF value <= 0 THEN defaultValue ELSE value

\* variant: recordsPerRequest is read from the configuration as well
getSpeedOptionsFromConfig(cfg) ==
  [recordsPerRequest |->
     getProperValue(cfg.recordsPerRequest, RECORDS_PER_REQUEST),
   numberOfThreads |-> getProperValue(cfg.numberOfThreads, NUMBER_OF_THREADS),
   qps |-> getProperValue(cfg.qps, QUERIES_PER_SECOND)]

\* recordsPerRequest is pinned; numberOfThreads and qps come from the
\* configuration, with the handler's defaults
getSpeedOptions(cfg) ==
  [recordsPerRequest |-> RECORDS_PER_REQUEST,
   numberOfThreads |-> getProperValue(cfg.numberOfThreads, NUMBER_OF_THREADS),
   qps |-> getProperValue(cfg.qps, QUERIES_PER_SECOND)]

\* variant: a last batch shorter than r is dropped
RECURSIVE PartitionDroppingRemainder(_, _)
PartitionDroppingRemainder(recs, r) ==
  IF Len(recs) < r THEN <<>>
  ELSE <<SubSeq(recs, 1, r)>>
         \o PartitionDroppingRemainder(SubSeq(recs, r + 1, Len(recs)), r)

\* variant: an empty input still makes one (empty) batch
RECURSIVE PartitionKeepingEmpty(_, _)
PartitionKeepingEmpty(recs, r) ==
  IF Len(recs) <= r THEN <<recs>>
  ELSE <<SubSeq(recs, 1, r)>>
         \o PartitionKeepingEmpty(SubSeq(recs, r + 1, Len(recs)), r)

\* consecutive batches of r records, only the last may be shorter
RECURSIVE Partition(_, _)
Partition(recs, r) ==
  IF Len(recs) = 0 THEN <<>>
  ELSE IF Len(recs) <= r THEN <<recs>>
  ELSE <<SubSeq(recs, 1, r)>> \o Partition(SubSeq(recs, r + 1, Len(recs)), r)

\* variant: the check lets an empty batch through
ArityAtMostOne(lines) == Len(lines) <= 1

\* if (lines.length !== 1) throw Error('Wrong number of Pub/Sub messages.')
ArityOk(lines) == Len(lines) = 1

\* JSON.parse(lines[0]) returns an object
ParseOk(lines) == Len(lines) >= 1 /\ lines[1] \in JsonRecords

\* const batchResult = { numberOfLines: 1 }
NewBatchResult(lines) == [numberOfLines |-> 1]

\* variant: the errors of the failed attempts stay on a successful result
SucceededBatchResultWithErrors(br, errs) ==
  br @@ [result |-> TRUE, errors |-> errs]

\* batchResult.result = true; the local errors are not attached
SucceededBatchResult(br, errs) == br @@ [result |-> TRUE]

\* variant: the successful publish does not leave the loop
NoReturnOnSuccess == FALSE

\* return batchResult, right after the successful publish
ReturnsOnSuccess == TRUE

\* variant: the failed lines are not handed back
FailedBatchResultNoLines(br, errs, lines) ==
  br @@ [result |-> FALSE, errors |-> errs, failedLines |-> <<>>]

\* variant: the lines are counted once per attempt
FailedBatchResultPerAttempt(br, errs, lines) ==
  [numberOfLines |-> Len(errs), result |-> FALSE, errors |-> errs,
   failedLines |-> lines]

\* variant: only the error of the last attempt is reported
FailedBatchResultLastError(br, errs, lines) ==
  br @@ [result |-> FALSE, errors |-> <<errs[Len(errs)]>>,
         failedLines |-> lines]

\* batchResult.result = false; .errors = errors; .failedLines = lines
FailedBatchResult(br, errs, lines) ==
  br @@ [result |-> FALSE, errors |-> errs, failedLines |-> lines]

\* error.message of a rejected publish call
ErrorMessage(o) == o

\* variant: one iteration less
LoopContinuesStrict(o, rt) == rt < RETRY_TIMES

\* variant: one iteration more
LoopContinuesOneMore(o, rt) == rt <= RETRY_TIMES + 1

\* variant: only an error classified as retryable is retried
LoopContinuesClassified(o, rt) == o = "retryable" /\ rt <= RETRY_TIMES

\* catch (error) { ... } while (retryTimes <= RETRY_TIMES): any error is
\* caught; rt is the value of retryTimes after the increment
LoopContinues(o, rt) == rt <= RETRY_TIMES

\* variant: one counter shared by all calls of the send function
SharedIncrement(rt, b) == [c \in DOMAIN rt |-> rt[c] + 1]

\* retryTimes++ on the local retryTimes of the call
IncrementRetryTimes(rt, b) == [rt EXCEPT ![b] = @ + 1]

\* variant: one errors array shared by all calls of the send function
SharedPush(errs, b, message) == [c \in DOMAIN errs |-> Append(errs[c], message)]

\* errors.push(error.message) on the local errors of the call
PushError(errs, b, message) == [errs EXCEPT ![b] = Append(@, message)]

\* if (retryTimes > 0) await wait(retryTimes * 1000)
NeedsWait(rt) == rt > 0

\* variant: the same delay before every retry
ConstantWaitMs(rt) == MsPerSecond

WaitMs(rt) == rt * MsPerSecond

\* the plan fixes the outcome of the first Len(plan[b]) publish calls of b
Allowed(b, o) ==
  IF attempts[b] > Len(plan[b]) THEN TRUE ELSE plan[b][attempts[b]] = o

(* ----------------------- merging (managed send) ----------------------- *)
FieldOr(obj, f, default) == IF f \in DOMAIN obj THEN obj[f] ELSE default

RECURSIVE MergeFrom(_, _)
MergeFrom(results, i) ==
  IF i > Len(results)
  THEN [numberOfLines |-> 0, result |-> TRUE, errors |-> <<>>,
        failedLines |-> <<>>]
  ELSE LET rest == MergeFrom(results, i + 1)
           r == results[i]
       IN [numberOfLines |-> r.numberOfLines + rest.numberOfLines,
           result |-> r.result /\ rest.result,
           errors |-> FieldOr(r, "errors", <<>>) \o rest.errors,
           failedLines |-> FieldOr(r, "failedLines", <<>>) \o rest.failedLines]

\* numberOfLines = sum, result = conjunction, errors and failedLines = union,
\* taken in batch order whatever the completion order
MergeBatchResults(results) == MergeFrom(results, 1)

(* ----------------------------- the state ------------------------------ *)
TypeOK ==
  /\ config \in [numberOfThreads : Nat, qps : Nat, recordsPerRequest : Nat,
                 retryTimes : Nat, ignoreError : BOOLEAN,
                 next : Seq(TaskIds)]
  /\ records \in Seq(Records)
  /\ \A b \in Batches : batches[b] \in Seq(Records)
  /\ DOMAIN plan = Batches
  /\ pc \in [Batches ->
               {"pending", "publishing", "waiting", "returned", "thrown"}]
  /\ \A b \in Batches :
       DOMAIN batchResult[b]
         \subseteq {"numberOfLines", "result", "errors", "failedLines"}
  /\ retryTimes \in [Batches -> Nat]
  /\ \A b \in Batches : errors[b] \in Seq(Failures)
  /\ waitFor \in [Batches -> Nat]
  /\ waited \in [Batches -> Nat]
  /\ fault \in [Batches -> {"", WRONG_NUMBER, SYNTAX_ERROR}]
  /\ attempts \in [Batches -> Nat]
  /\ \A b \in Batches : outcomes[b] \in Seq(Outcomes)
  /\ \A b \in Batches : waits[b] \in Seq(Nat)
  /\ issuedNow \in Nat
  /\ pacedNow \in Nat
  /\ aborted \in BOOLEAN
  /\ completed \in Seq(Batches)
  /\ DOMAIN aggregate
       \in {{}, {"numberOfLines", "result", "errors", "failedLines"}}
  /\ chain \in {"running", "continued", "halted"}
  /\ invoked \in Seq(TaskIds)
  /\ children \in Seq([status : {"running", "succeeded", "failed"},
                       ignoreError : BOOLEAN])

(* ------------------------------- Init --------------------------------- *)
InitCalls(bs) ==
  /\ pc = [b \in DOMAIN bs |-> "pending"]
  /\ batchResult = [b \in DOMAIN bs |-> EmptyObject]
  /\ retryTimes = [b \in DOMAIN bs |-> 0]
  /\ errors = [b \in DOMAIN bs |-> <<>>]
  /\ waitFor = [b \in DOMAIN bs |-> 0]
  /\ waited = [b \in DOMAIN bs |-> 0]
  /\ fault = [b \in DOMAIN bs |-> ""]
  /\ attempts = [b \in DOMAIN bs |-> 0]
  /\ outcomes = [b \in DOMAIN bs |-> <<>>]
  /\ waits = [b \in DOMAIN bs |-> <<>>]
  /\ issuedNow = 0
  /\ pacedNow = 0
  /\ aborted = FALSE
  /\ completed = <<>>
  /\ aggregate = EmptyObject

\* the Coordinator has not decided yet; cs are the embedded children
InitCoordinator(cs) ==
  /\ chain = "running"
  /\ invoked = <<>>
  /\ children = cs

\* outcomes the engine specification runs a batch against: immediate success,
\* success on the second attempt, failure of every attempt
EnginePlans ==
  {[k \in 1..(RETRY_TIMES + 1) |-> "ok"],
   [k \in 1..(RETRY_TIMES + 1) |-> IF k = 1 THEN "retryable" ELSE "ok"],
   [k \in 1..(RETRY_TIMES + 1) |-> "fatal"]}

\* one invocation of sendDataInternal: managedSend(getSendSingleMessageFn, records)
Init ==
  /\ config \in [numberOfThreads : 0..MaxThreads, qps : 0..MaxQps,
                 recordsPerRequest : {0}, retryTimes : {RETRY_TIMES},
                 ignoreError : {FALSE}, next : {<<"A", "B">>}]
  /\ records \in SeqsUpTo(Records, MaxRecords)
  /\ batches = Partition(records, getSpeedOptions(config).recordsPerRequest)
  /\ plan \in [DOMAIN batches -> EnginePlans]
  /\ InitCalls(batches)
  /\ InitCoordinator(<<>>)

\* one direct call getSendSingleMessageFn(lines, batchId), any outcomes
InitFn ==
  /\ config \in [numberOfThreads : {0}, qps : {0}, recordsPerRequest : {0},
                 retryTimes : 0..MaxCfgRetryTimes, ignoreError : BOOLEAN,
                 next : {<<>>}]
  /\ records \in SeqsUpTo(Records, MaxLines)
  /\ batches = <<records>>
  /\ plan = <<<<>>>>
  /\ InitCalls(batches)
  /\ InitCoordinator(<<>>)

\* Scenario A and B: five records, recordsPerRequest = 2, next = "A,B"
ScenarioRecords == <<"a", "b", "a", "b", "a">>

ScenarioConfig ==
  [numberOfThreads |-> 0, qps |-> 0, recordsPerRequest |-> 2, retryTimes |-> 2,
   ignoreError |-> FALSE, next |-> <<"A", "B">>]

\* the batch in the middle of bs
MiddleBatch(bs) == (Len(bs) + 1) \div 2

\* the middle batch fails twice and then succeeds (A), or fails every time (B)
ScenarioPlans(bs) ==
  {[b \in DOMAIN bs |->
      IF b = MiddleBatch(bs) THEN p ELSE [k \in 1..(RETRY_TIMES + 1) |-> "ok"]] :
     p \in {[k \in 1..(RETRY_TIMES + 1) |->
               IF k <= 2 THEN "retryable" ELSE "ok"],
            [k \in 1..(RETRY_TIMES + 1) |-> "retryable"]}}

\* a task the Coordinator runs: the send, then the decision on its next group
InitTask ==
  /\ \/ /\ config \in [numberOfThreads : 0..MaxThreads, qps : 0..MaxQps,
                       recordsPerRequest : 0..MaxPerRequest,
                       retryTimes : {RETRY_TIMES}, ignoreError : BOOLEAN,
                       next : {<<"A", "B">>}]
        /\ records \in SeqsUpTo(Records, MaxTaskRecords)
        /\ batches =
             Partition(records, getSpeedOptions(config).recordsPerRequest)
        /\ plan \in [DOMAIN batches -> EnginePlans]
     \/ /\ config = ScenarioConfig
        /\ records = ScenarioRecords
        /\ batches =
             Partition(records, getSpeedOptions(config).recordsPerRequest)
        /\ plan \in ScenarioPlans(batches)
  /\ InitCalls(batches)
  /\ InitCoordinator(<<>>)

\* a knot task: nothing of its own to send, up to MaxChildren embedded
\* children invoked in parallel, each under its own ignoreError
InitKnot ==
  /\ config \in [numberOfThreads : {0}, qps : {0}, recordsPerRequest : {0},
                 retryTimes : {RETRY_TIMES}, ignoreError : {FALSE},
                 next : {<<"A", "B">>}]
  /\ records = <<>>
  /\ batches = <<>>
  /\ plan = <<>>
  /\ InitCalls(batches)
  /\ chain = "running"
  /\ invoked = <<>>
  /\ \E n \in 1..MaxChildren :
       \E ig \in [1..n -> BOOLEAN] :
         children = [c \in 1..n |->
                       [status |-> "running", ignoreError |-> ig[c]]]

(* ------------------ the per-batch send function ----------------------- *)
\* const messageId = await pubsub.publish(topic, message, attributes)
CallPublish(b) ==
  /\ attempts' = [attempts EXCEPT ![b] = @ + 1]
  /\ issuedNow' = issuedNow + 1
  /\ pc' = [pc EXCEPT ![b] = "publishing"]

\* top of the do-loop with retryTimes = rt: wait first, or publish at once
LoopTop(b, rt) ==
  IF NeedsWait(rt)
  THEN /\ pc' = [pc EXCEPT ![b] = "waiting"]
       /\ waitFor' = [waitFor EXCEPT ![b] = WaitMs(rt)]
       /\ waited' = [waited EXCEPT ![b] = 0]
       /\ UNCHANGED <<attempts, issuedNow>>
  ELSE /\ CallPublish(b)
       /\ UNCHANGED <<waitFor, waited>>

\* the call throws: the promise it returned is rejected
Throw(b, message) ==
  /\ pc' = [pc EXCEPT ![b] = "thrown"]
  /\ fault' = [fault EXCEPT ![b] = message]
  /\ aborted' = TRUE
  /\ UNCHANGED <<batchResult, retryTimes, errors, waitFor, waited, attempts,
                 issuedNow>>

\* getSendSingleMessageFn(lines, batchId), up to its first await
Call(b) ==
  /\ pc[b] = "pending"
  /\ IF ~ArityOk(batches[b]) THEN Throw(b, WRONG_NUMBER)
     ELSE IF ~ParseOk(batches[b]) THEN Throw(b, SYNTAX_ERROR)
     ELSE /\ batchResult' = [batchResult EXCEPT ![b] = NewBatchResult(batches[b])]
          /\ retryTimes' = [retryTimes EXCEPT ![b] = 0]
          /\ errors' = [errors EXCEPT ![b] = <<>>]
          /\ LoopTop(b, 0)
          /\ UNCHANGED <<fault, aborted>>
  /\ UNCHANGED <<config, records, batches, plan, outcomes, waits, completed,
                 aggregate, coordVars>>

\* the direct call of the send function
Invoke ==
  /\ Call(1)
  /\ UNCHANGED pacedNow

\* publish resolved: batchResult.result = true; return batchResult
PublishResolved(b) ==
  /\ pc[b] = "publishing"
  /\ Allowed(b, "ok")
  /\ outcomes' = [outcomes EXCEPT ![b] = Append(@, "ok")]
  /\ batchResult' =
       [batchResult EXCEPT ![b] = SucceededBatchResult(@, errors[b])]
  /\ IF ReturnsOnSuccess
     THEN /\ pc' = [pc EXCEPT ![b] = "returned"]
          /\ completed' = Append(completed, b)
          /\ UNCHANGED <<waitFor, waited, attempts, issuedNow>>
     ELSE /\ LoopTop(b, retryTimes[b])
          /\ UNCHANGED completed
  /\ UNCHANGED <<config, records, batches, plan, retryTimes, errors, fault,
                 waits, pacedNow, aborted, aggregate, coordVars>>

\* publish rejected: the catch block, the loop condition, and either the
\* wait of the next iteration or the failed batchResult
PublishRejected(b) ==
  /\ pc[b] = "publishing"
  /\ \E o \in Failures :
       /\ Allowed(b, o)
       /\ outcomes' = [outcomes EXCEPT ![b] = Append(@, o)]
       /\ errors' = PushError(errors, b, ErrorMessage(o))
       /\ retryTimes' = IncrementRetryTimes(retryTimes, b)
       /\ IF LoopContinues(o, retryTimes'[b])
          THEN /\ LoopTop(b, retryTimes'[b])
               /\ UNCHANGED <<batchResult, completed>>
          ELSE /\ batchResult' =
                    [batchResult EXCEPT
                       ![b] = FailedBatchResult(@, errors'[b], batches[b])]
               /\ pc' = [pc EXCEPT ![b] = "returned"]
               /\ completed' = Append(completed, b)
               /\ UNCHANGED <<waitFor, waited, attempts, issuedNow>>
  /\ UNCHANGED <<config, records, batches, plan, fault, waits, pacedNow,
                 aborted, aggregate, coordVars>>

\* wait(retryTimes * 1000) is over: the next publish call
Retry(b) ==
  /\ pc[b] = "waiting"
  /\ waited[b] >= waitFor[b]
  /\ waits' = [waits EXCEPT ![b] = Append(@, waited[b])]
  /\ CallPublish(b)
  /\ UNCHANGED <<config, records, batches, plan, batchResult, retryTimes,
                 errors, waitFor, waited, fault, outcomes, pacedNow, aborted,
                 completed, aggregate, coordVars>>

\* one second passes; a timer that is due fires before time moves on
Tick ==
  /\ \A b \in Batches : pc[b] = "waiting" => waited[b] < waitFor[b]
  /\ waited' = [b \in Batches |->
                  IF pc[b] = "waiting" THEN waited[b] + MsPerSecond
                  ELSE waited[b]]
  /\ issuedNow' = 0
  /\ pacedNow' = 0
  /\ UNCHANGED <<config, records, batches, plan, pc, batchResult, retryTimes,
                 errors, waitFor, fault, attempts, outcomes, waits, aborted,
                 completed, aggregate, coordVars>>

(* ------------------------ the managed send engine --------------------- *)
InFlight == {b \in Batches : pc[b] \in {"publishing", "waiting"}}

\* a lane takes the next batch once the shared pacing budget allows it
Issue(b) ==
  /\ ~aborted
  /\ \A c \in Batches : c < b => pc[c] # "pending"
  /\ Cardinality(InFlight) < getSpeedOptions(config).numberOfThreads
  /\ pacedNow < getSpeedOptions(config).qps
  /\ pacedNow' = pacedNow + 1
  /\ Call(b)

\* every batch returned its result: merge them
Aggregate ==
  /\ ~aborted
  /\ aggregate = EmptyObject
  /\ \A b \in Batches : pc[b] = "returned"
  /\ aggregate' = MergeBatchResults(batchResult)
  /\ UNCHANGED <<config, records, batches, plan, pc, batchResult, retryTimes,
                 errors, waitFor, waited, fault, attempts, outcomes, waits,
                 issuedNow, pacedNow, aborted, completed, coordVars>>

(* -------------------------- the Coordinator --------------------------- *)
\* the engine returned the merged result
Aggregated == aggregate # EmptyObject

\* the invocation ended: with the merged result, or rejected with all calls over
InvocationOver == Aggregated \/ (aborted /\ InFlight = {})

\* the invocation ended with result = true
InvocationSucceeded == IF Aggregated THEN aggregate.result ELSE FALSE

\* variant: a failure always stops the chain
ShouldContinueOnSuccessOnly(succeeded, ignoreError) == succeeded

\* a failure is not fatal for the chain when ignoreError is true
ShouldContinue(succeeded, ignoreError) == succeeded \/ ignoreError

\* the task is over and its next group is invoked
Continue ==
  /\ chain = "running"
  /\ children = <<>>
  /\ InvocationOver
  /\ ShouldContinue(InvocationSucceeded, config.ignoreError)
  /\ chain' = "continued"
  /\ invoked' = invoked \o config.next
  /\ UNCHANGED <<config, records, batches, plan, pc, batchResult, retryTimes,
                 errors, waitFor, waited, fault, attempts, outcomes, waits,
                 issuedNow, pacedNow, aborted, completed, aggregate, children>>

\* the task failed and the failure propagates: no next task is invoked
Halt ==
  /\ chain = "running"
  /\ children = <<>>
  /\ InvocationOver
  /\ ~ShouldContinue(InvocationSucceeded, config.ignoreError)
  /\ chain' = "halted"
  /\ UNCHANGED <<config, records, batches, plan, pc, batchResult, retryTimes,
                 errors, waitFor, waited, fault, attempts, outcomes, waits,
                 issuedNow, pacedNow, aborted, completed, aggregate, invoked,
                 children>>

(* ------------------------------ the knot ------------------------------ *)
\* child c succeeded, or failed under its own ignoreError = true
ChildResolved(c) ==
  \/ children[c].status = "succeeded"
  \/ children[c].status = "failed" /\ children[c].ignoreError

\* variant: the barrier opens as soon as one child has resolved
KnotReadyOnAny == \E c \in DOMAIN children : ChildResolved(c)

\* the barrier is open: every embedded child has resolved
KnotReady == \A c \in DOMAIN children : ChildResolved(c)

\* embedded child c ends with status s
ChildEnds(c, s) ==
  /\ children[c].status = "running"
  /\ children' = [children EXCEPT ![c].status = s]
  /\ UNCHANGED <<config, records, batches, plan, pc, batchResult, retryTimes,
                 errors, waitFor, waited, fault, attempts, outcomes, waits,
                 issuedNow, pacedNow, aborted, completed, aggregate, chain,
                 invoked>>

\* the knot's own next group is invoked
KnotFire ==
  /\ chain = "running"
  /\ children # <<>>
  /\ KnotReady
  /\ chain' = "continued"
  /\ invoked' = invoked \o config.next
  /\ UNCHANGED <<config, records, batches, plan, pc, batchResult, retryTimes,
                 errors, waitFor, waited, fault, attempts, outcomes, waits,
                 issuedNow, pacedNow, aborted, completed, aggregate, children>>

(* ------------------------------- Next --------------------------------- *)
Next ==
  \/ \E b \in Batches : Issue(b)
  \/ \E b \in Batches : PublishResolved(b)
  \/ \E b \in Batches : PublishRejected(b)
  \/ \E b \in Batches : Retry(b)
  \/ Tick
  \/ Aggregate

NextFn ==
  \/ Invoke
  \/ \E b \in Batches : PublishResolved(b)
  \/ \E b \in Batches : PublishRejected(b)
  \/ \E b \in Batches : Retry(b)
  \/ Tick

NextTask ==
  \/ Next
  \/ Continue
  \/ Halt

NextKnot ==
  \/ \E c \in DOMAIN children : ChildEnds(c, "succeeded")
  \/ \E c \in DOMAIN children : ChildEnds(c, "failed")
  \/ KnotFire

Spec == Init /\ [][Next]_vars

SpecFn == InitFn /\ [][NextFn]_vars

\* every started publish call and every wait returns
SpecFnFair ==
  /\ SpecFn
  /\ WF_vars(Invoke)
  /\ WF_vars(\E b \in Batches : PublishResolved(b) \/ PublishRejected(b))
  /\ WF_vars(\E b \in Batches : Retry(b))
  /\ WF_vars(Tick)

SpecTask == InitTask /\ [][NextTask]_vars

SpecKnot == InitKnot /\ [][NextKnot]_vars

(* ------------------------------ claims -------------------------------- *)
Returned(b) == pc[b] = "returned"

\* every publish call of b so far was rejected with an error of kind o
AllOutcomes(b, o) == \A k \in DOMAIN outcomes[b] : outcomes[b][k] = o

MarkedFailed(b) ==
  /\ Returned(b)
  /\ "result" \in DOMAIN batchResult[b]
  /\ batchResult[b].result = FALSE

RECURSIVE SumSeq(_)
SumSeq(q) == IF q = <<>> THEN 0 ELSE Head(q) + SumSeq(Tail(q))

\* C1 (as stated): a batch whose every publish call fails with a retryable
\* failure is attempted exactly errorOptions.retryTimes + 1 times, never more
\* or fewer, and is then marked failed.
C1_ConfiguredRetryBudget ==
  \A b \in Batches :
    AllOutcomes(b, "retryable") =>
      /\ attempts[b] <= config.retryTimes + 1
      /\ Returned(b) => /\ attempts[b] = config.retryTimes + 1
                        /\ MarkedFailed(b)

\* C1 (amended): a batch whose every publish call fails with a retryable
\* failure is attempted exactly RETRY_TIMES + 1 = 4 times, the constant of the
\* handler, whatever errorOptions.retryTimes is, and is then marked failed.
C1_FixedRetryBudget ==
  \A b \in Batches :
    AllOutcomes(b, "retryable") =>
      /\ attempts[b] <= RETRY_TIMES + 1
      /\ Returned(b) => /\ attempts[b] = RETRY_TIMES + 1
                        /\ MarkedFailed(b)

C1_Witness ==
  \E b \in Batches :
    /\ AllOutcomes(b, "retryable")
    /\ MarkedFailed(b)
    /\ attempts[b] = RETRY_TIMES + 1
    /\ config.retryTimes # RETRY_TIMES

C3_LinearBackoff ==
  \A b \in Batches :
    /\ Len(waits[b]) = IF attempts[b] = 0 THEN 0 ELSE attempts[b] - 1
    /\ \A k \in DOMAIN waits[b] : waits[b][k] = k * MsPerSecond
    /\ 2 * SumSeq(waits[b]) = Len(waits[b]) * (Len(waits[b]) + 1) * MsPerSecond
    /\ pc[b] = "waiting" => waitFor[b] = attempts[b] * MsPerSecond

C3_Witness ==
  \E b \in Batches :
    /\ attempts[b] = RETRY_TIMES + 1
    /\ waits[b] = <<MsPerSecond, 2 * MsPerSecond, 3 * MsPerSecond>>

\* C4 (as stated): for a batch of the required arity the send function never
\* throws, whatever the record holds: the only error it raises is the one for
\* a batch of the wrong size.
C4_NoUncaughtPerRecordFault ==
  \A b \in Batches :
    pc[b] = "thrown" => /\ Len(batches[b]) # 1
                        /\ fault[b] = WRONG_NUMBER

\* C5: a batch of any size other than 1 makes the send function throw the
\* wrong-number error before any publish call or wait and without a
\* BatchResult; no other failure is reported that way.
C5_ArityFaultNotRetried ==
  \A b \in Batches :
    /\ Len(batches[b]) # 1 =>
         /\ pc[b] \in {"pending", "thrown"}
         /\ pc[b] = "thrown" => fault[b] = WRONG_NUMBER
         /\ attempts[b] = 0
         /\ waits[b] = <<>>
         /\ retryTimes[b] = 0
         /\ batchResult[b] = EmptyObject
    /\ fault[b] = WRONG_NUMBER => Len(batches[b]) # 1
    /\ outcomes[b] # <<>> => fault[b] = ""

C5_Witness ==
  \E b \in Batches :
    /\ Len(batches[b]) = 0
    /\ pc[b] = "thrown"
    /\ fault[b] = WRONG_NUMBER


\* no publish call of b was resolved: the batch ultimately failed
UltimatelyFailed(b) ==
  Returned(b) /\ \A k \in DOMAIN outcomes[b] : outcomes[b][k] # "ok"

UltimatelySucceeded(b) ==
  Returned(b) /\ \E k \in DOMAIN outcomes[b] : outcomes[b][k] = "ok"

\* the records of the batches from i on that ultimately failed, in input order
RECURSIVE FailedRecordsFrom(_)
FailedRecordsFrom(i) ==
  IF i > Len(batches) THEN <<>>
  ELSE (IF UltimatelyFailed(i) THEN batches[i] ELSE <<>>)
         \o FailedRecordsFrom(i + 1)

\* C6 (as stated): in any one-second window the send requests made by all
\* lanes together never exceed the configured qps.
C6_SharedQpsBudget == issuedNow <= getSpeedOptions(config).qps

\* C7: the invocation-level BatchResult has result = true, with empty errors,
\* exactly when every batch ultimately succeeded; otherwise result = false and
\* failedLines holds the records of the batches that ultimately failed, all of
\* them and no others.
C7_AggregateResult ==
  Aggregated =>
    /\ aggregate.result = (\A b \in Batches : UltimatelySucceeded(b))
    /\ aggregate.result => aggregate.errors = <<>>
    /\ (aggregate.result /\ aggregate.errors = <<>>)
         = (\A b \in Batches : UltimatelySucceeded(b))
    /\ aggregate.failedLines = FailedRecordsFrom(1)
    /\ (\E b \in Batches : UltimatelyFailed(b)) =>
         /\ aggregate.result = FALSE
         /\ aggregate.errors # <<>>

C7_Witness ==
  /\ Aggregated
  /\ \E b, c \in Batches :
       /\ UltimatelyFailed(b)
       /\ UltimatelySucceeded(c)
       /\ attempts[c] > 1
       /\ aggregate.failedLines = batches[b]

\* C8: the aggregate numberOfLines equals the number of input records,
\* whatever number of attempts each batch took and whether or not it failed.
C8_NumberOfLines == Aggregated => aggregate.numberOfLines = Len(records)

C8_Witness ==
  /\ Aggregated
  /\ Len(records) >= 2
  /\ aggregate.numberOfLines = Len(records)
  /\ \E b, c \in Batches :
       /\ UltimatelyFailed(b)
       /\ UltimatelySucceeded(c)
       /\ attempts[c] > 1

\* the result of batch b as the planned outcomes of its publish calls fix it
ExpectedBatchResult(b) ==
  IF \E k \in 1..(RETRY_TIMES + 1) : plan[b][k] = "ok"
  THEN [numberOfLines |-> Len(batches[b]), result |-> TRUE]
  ELSE [numberOfLines |-> Len(batches[b]), result |-> FALSE,
        errors |-> [k \in 1..(RETRY_TIMES + 1) |-> plan[b][k]],
        failedLines |-> batches[b]]

ExpectedAggregate ==
  MergeBatchResults([b \in Batches |-> ExpectedBatchResult(b)])

\* C9: for a fixed input and fixed outcomes of every attempt of every batch,
\* the invocation-level BatchResult (numberOfLines, result, errors,
\* failedLines) is the same whatever the order in which the lanes run and the
\* batches complete.
C9_DeterministicAggregate == Aggregated => aggregate = ExpectedAggregate

C9_Witness ==
  /\ Aggregated
  /\ Len(completed) >= 2
  /\ completed[1] > completed[2]
  /\ aggregate.result = FALSE

\* supporting: the engine itself issues at most qps batches per window on at
\* most numberOfThreads lanes; the excess of C6 comes from the retries
IssuesPaced ==
  /\ pacedNow <= getSpeedOptions(config).qps
  /\ Cardinality(InFlight) <= getSpeedOptions(config).numberOfThreads

BatchFailed(b) == pc[b] = "thrown" \/ MarkedFailed(b)

\* C10 (as stated): whichever batch fails, every other batch of the input is
\* still attempted at least once and returns its own per-batch result.
C10_SiblingsStillSent ==
  InvocationOver =>
    \A b, c \in Batches :
      (BatchFailed(c) /\ b # c /\ ArityOk(batches[b]) /\ ParseOk(batches[b]))
        => (attempts[b] >= 1 /\ Returned(b))

\* supporting: C10 fails through the uncaught parse error of C4 only
SiblingsSentWhenRecordsParse ==
  (\A i \in DOMAIN records : records[i] \in JsonRecords)
    => C10_SiblingsStillSent

\* the batches of bs, concatenated in order
RECURSIVE Flatten(_)
Flatten(bs) == IF bs = <<>> THEN <<>> ELSE Head(bs) \o Flatten(Tail(bs))

\* bs cuts recs into batches of r records without loss or reordering
IsPartition(bs, recs, r) ==
  /\ \A b \in DOMAIN bs :
       IF b < Len(bs) THEN Len(bs[b]) = r ELSE Len(bs[b]) \in 1..r
  /\ Flatten(bs) = recs
  /\ SumSeq([b \in DOMAIN bs |-> Len(bs[b])]) = Len(recs)

\* C11: partitioning is lossless and order-preserving: every batch but the
\* last has exactly R records, the last has 1..R, and the batches concatenated
\* in order are the input; for the batches the engine works on and for every
\* batch size R.
C11_PartitionLossless ==
  /\ IsPartition(batches, records, getSpeedOptions(config).recordsPerRequest)
  /\ \A r \in 1..MaxPerRequest : IsPartition(Partition(records, r), records, r)

\* several batches, and with the configured size a shorter last batch
C11_Witness ==
  LET r == config.recordsPerRequest
      bs == Partition(records, r)
  IN  /\ r >= 2
      /\ Len(batches) > Len(bs)
      /\ Len(bs) >= 2
      /\ Len(bs[Len(bs)]) < r
      /\ Aggregated

\* C12: after a failed invocation the next tasks are invoked if and only if
\* ignoreError is true, and with ignoreError false none is ever invoked;
\* after a successful invocation they are invoked whatever ignoreError is.
C12_NextIffIgnoreError ==
  /\ chain = "running" => invoked = <<>>
  /\ chain = "continued" =>
       /\ invoked = config.next
       /\ InvocationOver
       /\ InvocationSucceeded \/ config.ignoreError
  /\ chain = "halted" =>
       /\ invoked = <<>>
       /\ InvocationOver
       /\ ~InvocationSucceeded
       /\ ~config.ignoreError
  /\ (InvocationOver /\ chain = "running") =>
       IF InvocationSucceeded \/ config.ignoreError
       THEN ENABLED Continue /\ ~ENABLED Halt
       ELSE ENABLED Halt /\ ~ENABLED Continue
  /\ ~InvocationOver => ~ENABLED Continue /\ ~ENABLED Halt

\* a batch exhausted its retries, ignoreError is true, A and B were invoked
C12_Witness ==
  /\ Aggregated
  /\ aggregate.result = FALSE
  /\ \E b \in Batches : attempts[b] = RETRY_TIMES + 1
  /\ config.ignoreError
  /\ chain = "continued"
  /\ invoked = <<"A", "B">>

\* supporting: the failed invocation with ignoreError = false (Scenario B)
ScenarioBHalts ==
  /\ records = ScenarioRecords
  /\ Aggregated
  /\ aggregate.result = FALSE
  /\ chain = "halted"

\* C14: the Pub/Sub handler's recordsPerRequest is 1 whatever the
\* configuration says; numberOfThreads and qps are the configured value when
\* there is one and 1 otherwise; the engine batches with exactly these.
C14_SpeedOptions ==
  LET options == getSpeedOptions(config)
  IN  /\ options.recordsPerRequest = 1
      /\ options.numberOfThreads =
           IF config.numberOfThreads > 0 THEN config.numberOfThreads ELSE 1
      /\ options.qps = IF config.qps > 0 THEN config.qps ELSE 1
      /\ \A b \in Batches : Len(batches[b]) = 1
      /\ Cardinality(InFlight) <= options.numberOfThreads
      /\ pacedNow <= options.qps

\* a configuration with recordsPerRequest and numberOfThreads, without qps
C14_Witness ==
  /\ config.recordsPerRequest >= 2
  /\ config.numberOfThreads >= 2
  /\ config.qps = 0
  /\ Batches # {}
  /\ Aggregated

\* child c of the knot succeeded, or failed with its own ignoreError = true
HasResolved(c) ==
  \/ children[c].status = "succeeded"
  \/ children[c].status = "failed" /\ children[c].ignoreError = TRUE

\* C13: the next group of a knot with N embedded children fires at most once,
\* and only in a state where every child has resolved; while any child is
\* unresolved it cannot fire, in any interleaving of the child completions.
C13_KnotFiresOnceAllResolved ==
  /\ invoked \in {<<>>, config.next}
  /\ invoked # <<>> <=> chain = "continued"
  /\ invoked # <<>> => \A c \in DOMAIN children : HasResolved(c)
  /\ (\E c \in DOMAIN children : ~HasResolved(c)) => ~ENABLED KnotFire
  /\ chain # "running" => ~ENABLED KnotFire

\* the barrier fired after several children, one of them failed-but-ignored
C13_Witness ==
  /\ Len(children) >= 2
  /\ invoked = <<"A", "B">>
  /\ \E c \in DOMAIN children : children[c].status = "failed"
  /\ \E c \in DOMAIN children : children[c].status = "succeeded"

\* supporting: a child that failed without ignoreError keeps the barrier shut
KnotBlockedByFailedChild ==
  /\ \E c \in DOMAIN children :
       children[c].status = "failed" /\ ~children[c].ignoreError
  /\ \A c \in DOMAIN children : children[c].status # "running"
  /\ invoked = <<>>

\* batch b returned after some rejected publish calls and a resolved one
RetriedThenSucceeded(b) ==
  /\ Returned(b)
  /\ Len(outcomes[b]) >= 2
  /\ outcomes[b][Len(outcomes[b])] = "ok"

\* the five records of Scenario A, the middle batch failing twice
ScenarioA ==
  /\ records = ScenarioRecords
  /\ config = ScenarioConfig
  /\ outcomes[MiddleBatch(batches)] = <<"retryable", "retryable", "ok">>

\* C15: a batch that fails on some attempts and then succeeds within the
\* retry budget is a success with no error left behind: result = true and
\* neither errors nor failedLines; when every batch ends so the aggregate is
\* result = true, numberOfLines = the record count, errors = [], failedLines
\* = []; in Scenario A that is 5 lines and the next tasks A and B fire.
C15_RetriedSuccessLeavesNoError ==
  /\ \A b \in Batches :
       RetriedThenSucceeded(b) =>
         /\ batchResult[b].result = TRUE
         /\ "errors" \notin DOMAIN batchResult[b]
         /\ "failedLines" \notin DOMAIN batchResult[b]
  /\ (Aggregated /\ \A b \in Batches : UltimatelySucceeded(b)) =>
       aggregate = [numberOfLines |-> Len(records), result |-> TRUE,
                    errors |-> <<>>, failedLines |-> <<>>]
  /\ (ScenarioA /\ Aggregated) =>
       /\ aggregate = [numberOfLines |-> 5, result |-> TRUE,
                       errors |-> <<>>, failedLines |-> <<>>]
       /\ chain # "halted"
       /\ IF chain = "running" THEN ENABLED Continue
                              ELSE invoked = <<"A", "B">>

\* Scenario A ran to its end: A and B were invoked
C15_Witness ==
  /\ ScenarioA
  /\ Aggregated
  /\ waits[MiddleBatch(batches)] # <<>>
  /\ chain = "continued"
  /\ invoked = <<"A", "B">>

RECURSIVE FailuresOf(_)
FailuresOf(os) ==
  IF os = <<>> THEN <<>>
  ELSE (IF Head(os) = "ok" THEN <<>> ELSE <<Head(os)>>) \o FailuresOf(Tail(os))

\* what a call keeps for its retries depends on its own publish outcomes only
OwnRetryState(b) ==
  /\ retryTimes[b] = Len(FailuresOf(outcomes[b]))
  /\ errors[b] = FailuresOf(outcomes[b])
  /\ pc[b] = "waiting" => waitFor[b] = retryTimes[b] * 1000
  /\ MarkedFailed(b) => attempts[b] = RETRY_TIMES + 1

\* C17: retry state is private to each batch: with several batches in flight
\* a failed attempt of one batch changes neither the retry counter nor the
\* backoff wait nor the error list of another, every batch has the full retry
\* budget whatever its siblings do, and every call starts from a fresh state.
C17_RetryStatePrivate ==
  /\ [](\A b \in Batches : OwnRetryState(b))
  /\ [][\A b \in Batches :
         /\ PublishRejected(b) =>
              \A c \in Batches \ {b} :
                /\ retryTimes'[c] = retryTimes[c]
                /\ errors'[c] = errors[c]
                /\ waitFor'[c] = waitFor[c]
                /\ attempts'[c] = attempts[c]
         /\ (pc[b] = "pending" /\ pc'[b] \in {"publishing", "waiting"}) =>
              (retryTimes'[b] = 0 /\ errors'[b] = <<>> /\ pc'[b] = "publishing")
       ]_vars

\* two batches in flight on two lanes, one waiting for its third retry while
\* the other is at its first attempt
C17_Witness ==
  \E b, c \in Batches :
    /\ pc[b] = "waiting"
    /\ retryTimes[b] = RETRY_TIMES
    /\ pc[c] = "publishing"
    /\ retryTimes[c] = 0
    /\ attempts[c] = 1

\* C18: the result of a batch that ultimately fails records its whole
\* history: errors has one message per failed attempt, in attempt order, as
\* many as attempts were made; failedLines is the batch's own records; and
\* numberOfLines is still the batch size.
C18_FailedResultHistory ==
  \A b \in Batches :
    MarkedFailed(b) =>
      /\ Len(batchResult[b].errors) = attempts[b]
      /\ \A k \in 1..attempts[b] :
           /\ outcomes[b][k] # "ok"
           /\ batchResult[b].errors[k] = outcomes[b][k]
      /\ batchResult[b].failedLines = batches[b]
      /\ batchResult[b].numberOfLines = Len(batches[b])

\* a batch failed on attempts that were rejected for different reasons
C18_Witness ==
  \E b \in Batches :
    /\ MarkedFailed(b)
    /\ attempts[b] = RETRY_TIMES + 1
    /\ batchResult[b].errors[1] # batchResult[b].errors[2]
    /\ batchResult[b].failedLines = batches[b]

\* C19: within one call of the send function a message is published
\* successfully at most once: the first successful publish is the last
\* outcome of the call, the call has returned with it, and no publish or
\* wait of that batch is pending after it.
C19_AtMostOneSuccessfulPublish ==
  \A b \in Batches :
    \A k \in DOMAIN outcomes[b] :
      outcomes[b][k] = "ok" =>
        /\ k = Len(outcomes[b])
        /\ attempts[b] = k
        /\ Len(waits[b]) = k - 1
        /\ Returned(b)
        /\ batchResult[b].result = TRUE
        /\ ~ENABLED Retry(b)
        /\ ~ENABLED PublishResolved(b)
        /\ ~ENABLED PublishRejected(b)

\* the call returned after a publish that succeeded on a retry
C19_Witness ==
  \E b \in Batches :
    /\ Returned(b)
    /\ Len(outcomes[b]) >= 2
    /\ outcomes[b][Len(outcomes[b])] = "ok"
    /\ Len(waits[b]) = Len(outcomes[b]) - 1

\* C20: the send function always terminates when every publish call and
\* every wait returns: whatever the publish outcomes and whatever the
\* errorOptions of the configuration, a call makes at most RETRY_TIMES + 1 = 4
\* publish attempts, and a call that started to publish returns a BatchResult
\* whose result is true or false.
C20_SendFunctionTerminates ==
  /\ [](attempts[1] <= 4)
  /\ [](Returned(1) =>
         /\ "result" \in DOMAIN batchResult[1]
         /\ batchResult[1].result \in BOOLEAN
         /\ attempts[1] \in 1..4)
  /\ <>(pc[1] \in {"returned", "thrown"})
  /\ [](attempts[1] >= 1 => <>Returned(1))

\* a call that used all four attempts under a configuration that asks for
\* more retries and sets ignoreError
C20_Witness ==
  /\ Returned(1)
  /\ attempts[1] = 4
  /\ batchResult[1].result = FALSE
  /\ config.retryTimes > RETRY_TIMES
  /\ config.ignoreError

====
